---------------------------- MODULE Spec2Model ----------------------------
(***************************************************************************)
(* Model of NetworkInterface (src/src/network_interface.cc/.hh): the ARP   *)
(* table, the tracker of pending ARP requests, the list of datagrams       *)
(* waiting for an ARP response and the outbound frame queue, driven by     *)
(* send_datagram, recv_frame, tick and maybe_send.                         *)
(***************************************************************************)
EXTENDS Integers, Sequences, FiniteSets, TLC

(***************************************************************************)
(* Bounds of the model.                                                    *)
(***************************************************************************)
\* the number of public calls made on the interface
MaxCalls == 4
\* the same, when the calls receive every frame of InFrames
MaxFrameCalls == 3

(***************************************************************************)
(* Program constants.                                                      *)
(***************************************************************************)
arp_entry_default_ttl_twice == 2 * 30000
arp_entry_default_ttl_ == 30000
arp_response_default_ttl_ == 5000

ethernet_address_ == "aa"
ip_address_ == "1.1.1.1"
ETHERNET_BROADCAST == "ff"

TYPE_IPv4 == 2048
TYPE_ARP == 2054
OPCODE_REQUEST == 1
OPCODE_REPLY == 2

(***************************************************************************)
(* Inputs the callers may present.                                         *)
(***************************************************************************)
NextHops == {"2.2.2.2", "3.3.3.3"}
Datagrams == {"d1", "d2"}
TickAmounts == {1, 4999, 5000, 29999, 30000}
\* the amounts of two ticks in a row that are compared with one tick of their sum
AgingAmounts == {0, 1, 4999, 5000, 29999}

\* std::optional: the empty sequence is std::nullopt, <<v>> holds v
Nullopt == <<>>
Some(v) == <<v>>

(***************************************************************************)
(* Payloads. serialize/parse belong to the datagram and ARP codecs; a      *)
(* payload is <<kind, body>>: the bytes of a datagram, the bytes of an ARP *)
(* message, or bytes neither parser accepts.                               *)
(***************************************************************************)
serialize_dgram(dgram) == <<"ipv4", dgram>>
serialize_arp(arp_msg) == <<"arp", arp_msg>>
Garbage == <<"bad", "">>

\* InternetDatagram::parse followed by parser.has_error()
parse_dgram_fixed(payload) == [has_error |-> payload[1] # "ipv4", datagram |-> "d1"]
parse_dgram(payload) == [has_error |-> payload[1] # "ipv4", datagram |-> payload[2]]
\* ARPMessage::parse followed by parser.has_error()
parse_arp(payload) == [has_error |-> payload[1] # "arp", arp_msg |-> payload[2]]

(***************************************************************************)
(* Frame and message construction helpers.                                 *)
(***************************************************************************)
construct_arp_message(opcode, target_eth_addr, target_ip_addr) ==
  [opcode |-> opcode,
   sender_ethernet_address |-> ethernet_address_,
   sender_ip_address |-> ip_address_,
   target_ethernet_address |-> target_eth_addr,
   target_ip_address |-> target_ip_addr]

construct_ethernet_frame(dst_addr, type, payload) ==
  [dst |-> dst_addr, src |-> ethernet_address_, type |-> type, payload |-> payload]

(***************************************************************************)
(* Frames that may arrive from the medium.                                 *)
(***************************************************************************)
InDst == {ethernet_address_, ETHERNET_BROADCAST, "bb"}
InTypes == {TYPE_IPv4, TYPE_ARP, 34525}
InSenders == {<<"2.2.2.2", "bb">>, <<"2.2.2.2", "cc">>, <<"3.3.3.3", "cc">>}
InTargets == {<<ethernet_address_, ip_address_>>, <<ethernet_address_, "2.2.2.2">>,
              <<"bb", ip_address_>>, <<"bb", "2.2.2.2">>}
ARPMessage(opcode, sender, target) ==
  [opcode |-> opcode, sender_ethernet_address |-> sender[2],
   sender_ip_address |-> sender[1], target_ethernet_address |-> target[1],
   target_ip_address |-> target[2]]
\* requests and replies from every sender to every target, and messages with an
\* opcode that is neither
InARPMessages ==
  { ARPMessage(op, s, t) : op \in {OPCODE_REQUEST, OPCODE_REPLY}, s \in InSenders,
                           t \in InTargets }
  \cup { ARPMessage(3, s, <<ethernet_address_, ip_address_>>) : s \in InSenders }
SampleARPMessage == ARPMessage(OPCODE_REQUEST, <<"2.2.2.2", "bb">>, <<"00", ip_address_>>)
\* frames to another station of every type and payload; frames to us and
\* broadcast frames with a malformed payload, a datagram and an ARP message;
\* every ARP message in an ARP frame sent to our address; a second datagram
\* sent to our address
InFrames ==
  { [dst |-> d, src |-> "bb", type |-> t, payload |-> p] :
      d \in InDst, t \in InTypes,
      p \in {Garbage, serialize_dgram("d1"), serialize_arp(SampleARPMessage)} }
  \cup
  { [dst |-> ethernet_address_, src |-> m.sender_ethernet_address, type |-> TYPE_ARP,
     payload |-> serialize_arp(m)] : m \in InARPMessages }
  \cup
  { [dst |-> ethernet_address_, src |-> "bb", type |-> TYPE_IPv4,
     payload |-> serialize_dgram("d2")] }

VARIABLES
  arp_table_,                       \* IP -> [eth_addr, ttl]
  waiting_arp_response_ip_addr_,    \* IP -> remaining suppression time
  waiting_arp_internet_datagrams_,  \* list of <<next_hop, dgram>>
  frames_out,                       \* queue of frames awaiting transmission
  last,                             \* the last public call, its inputs and result
  ncalls,                           \* number of public calls so far
  win,                              \* per next hop: the current run of send misses
  gone,                             \* per next hop: how its entry last went away
  since,                            \* per next hop: time since its last ARP request
  pushed,                           \* every frame pushed to frames_out, in order
  popped,                           \* every frame maybe_send returned, in order
  passed                            \* per datagram: the send_datagram calls with it

stores == <<arp_table_, waiting_arp_response_ip_addr_,
            waiting_arp_internet_datagrams_, frames_out>>
vars == <<arp_table_, waiting_arp_response_ip_addr_,
          waiting_arp_internet_datagrams_, frames_out, last, ncalls, win, gone, since,
          pushed, popped, passed>>

\* the four stores as one value, for the operators that model the methods
State ==
  [arp_table_ |-> arp_table_,
   waiting_arp_response_ip_addr_ |-> waiting_arp_response_ip_addr_,
   waiting_arp_internet_datagrams_ |-> waiting_arp_internet_datagrams_,
   frames_out |-> frames_out]

\* map[key] = value on an unordered_map
Put(map, key, value) ==
  [k \in DOMAIN map \cup {key} |-> IF k = key THEN value ELSE map[k]]
\* map.erase(key)
Erase_nothing(map, key) == map
Erase(map, key) == [k \in DOMAIN map \ {key} |-> map[k]]
\* list.erase(iter) at position i
EraseAt(list, i) == SubSeq(list, 1, i - 1) \o SubSeq(list, i + 1, Len(list))

(***************************************************************************)
(* send_datagram                                                           *)
(***************************************************************************)
\* an ARP request for next_hop_ip is already pending
request_pending_always(st, next_hop_ip) == FALSE
request_pending(st, next_hop_ip) ==
  next_hop_ip \in DOMAIN st.waiting_arp_response_ip_addr_

\* the frame sent on a hit in the ARP table
hit_frame_broadcast(st, dgram, next_hop_ip) ==
  construct_ethernet_frame(ETHERNET_BROADCAST, TYPE_IPv4, serialize_dgram(dgram))
hit_frame(st, dgram, next_hop_ip) ==
  construct_ethernet_frame(st.arp_table_[next_hop_ip].eth_addr, TYPE_IPv4,
                           serialize_dgram(dgram))

send_datagram_refreshing(st, dgram, next_hop) ==
  IF next_hop \notin DOMAIN st.arp_table_
  THEN LET arp_request == construct_arp_message(OPCODE_REQUEST, "00", next_hop)
           eth_frame == construct_ethernet_frame(ETHERNET_BROADCAST, TYPE_ARP,
                                                 serialize_arp(arp_request))
           st1 == IF ~request_pending(st, next_hop)
                  THEN [st EXCEPT !.frames_out = Append(@, eth_frame)]
                  ELSE st
       IN [st1 EXCEPT !.waiting_arp_response_ip_addr_ =
                          Put(@, next_hop, arp_response_default_ttl_),
                      !.waiting_arp_internet_datagrams_ =
                          Append(@, <<next_hop, dgram>>)]
  ELSE [st EXCEPT !.frames_out = Append(@, hit_frame(st, dgram, next_hop))]
send_datagram(st, dgram, next_hop) ==
  IF next_hop \notin DOMAIN st.arp_table_
  THEN LET arp_request == construct_arp_message(OPCODE_REQUEST, "00", next_hop)
           eth_frame == construct_ethernet_frame(ETHERNET_BROADCAST, TYPE_ARP,
                                                 serialize_arp(arp_request))
           st1 == IF ~request_pending(st, next_hop)
                  THEN [st EXCEPT
                          !.frames_out = Append(@, eth_frame),
                          !.waiting_arp_response_ip_addr_ =
                             Put(@, next_hop, arp_response_default_ttl_)]
                  ELSE st
       IN [st1 EXCEPT !.waiting_arp_internet_datagrams_ =
                          Append(@, <<next_hop, dgram>>)]
  ELSE [st EXCEPT !.frames_out = Append(@, hit_frame(st, dgram, next_hop))]

(***************************************************************************)
(* recv_frame, handle_IPv4_frame, handle_arp_frame                         *)
(***************************************************************************)
\* the frame is destined for this interface's address or is a broadcast
frame_accepted_any(frame) == TRUE
frame_accepted(frame) ==
  ~(frame.dst # ethernet_address_ /\ frame.dst # ETHERNET_BROADCAST)

handle_IPv4_frame_unchecked(st, frame) ==
  [st |-> st, ret |-> Some(parse_dgram(frame.payload).datagram)]
handle_IPv4_frame(st, frame) ==
  LET parser == parse_dgram(frame.payload)
  IN IF ~parser.has_error
     THEN [st |-> st, ret |-> Some(parser.datagram)]
     ELSE [st |-> st, ret |-> Nullopt]

is_valid_arp_request_any_target(arp_msg) == arp_msg.opcode = OPCODE_REQUEST
is_valid_arp_request(arp_msg) ==
  arp_msg.opcode = OPCODE_REQUEST /\ arp_msg.target_ip_address = ip_address_

is_valid_arp_reply_any_target(arp_msg) == arp_msg.opcode = OPCODE_REPLY
is_valid_arp_reply(arp_msg) ==
  arp_msg.opcode = OPCODE_REPLY /\ arp_msg.target_ethernet_address = ethernet_address_

\* the reply to a valid ARP request
arp_reply_frame_broadcast(arp_msg) ==
  construct_ethernet_frame(
    ETHERNET_BROADCAST, TYPE_ARP,
    serialize_arp(construct_arp_message(OPCODE_REPLY, arp_msg.sender_ethernet_address,
                                        arp_msg.sender_ip_address)))
arp_reply_frame(arp_msg) ==
  construct_ethernet_frame(
    arp_msg.sender_ethernet_address, TYPE_ARP,
    serialize_arp(construct_arp_message(OPCODE_REPLY, arp_msg.sender_ethernet_address,
                                        arp_msg.sender_ip_address)))

\* the loop over waiting_arp_internet_datagrams_, from position i on
RECURSIVE resend_waiting_kept(_, _, _)
resend_waiting_kept(st, i, src_ip_addr) ==
  LET list == st.waiting_arp_internet_datagrams_
  IN IF i > Len(list) THEN st
     ELSE IF list[i][1] = src_ip_addr
          THEN resend_waiting_kept(send_datagram(st, list[i][2], list[i][1]),
                                   i + 1, src_ip_addr)
          ELSE resend_waiting_kept(st, i + 1, src_ip_addr)
RECURSIVE resend_waiting(_, _, _)
resend_waiting(st, i, src_ip_addr) ==
  LET list == st.waiting_arp_internet_datagrams_
  IN IF i > Len(list) THEN st
     ELSE IF list[i][1] = src_ip_addr
          THEN LET sent == send_datagram(st, list[i][2], list[i][1])
               IN resend_waiting(
                    [sent EXCEPT !.waiting_arp_internet_datagrams_ = EraseAt(@, i)],
                    i, src_ip_addr)
          ELSE resend_waiting(st, i + 1, src_ip_addr)

\* the stores when the loop over waiting_arp_internet_datagrams_ starts, for a
\* valid request (is_request) or reply from src_ip_addr at src_eth_addr: the
\* reply to a request is pushed and the sender's ARP table entry is written
before_resend_unlearned(st, is_request, src_eth_addr, src_ip_addr) ==
  IF is_request
  THEN [st EXCEPT !.frames_out =
          Append(@, arp_reply_frame([sender_ethernet_address |-> src_eth_addr,
                                     sender_ip_address |-> src_ip_addr]))]
  ELSE st
before_resend(st, is_request, src_eth_addr, src_ip_addr) ==
  LET st1 == IF is_request
             THEN [st EXCEPT !.frames_out =
                     Append(@, arp_reply_frame([sender_ethernet_address |-> src_eth_addr,
                                                sender_ip_address |-> src_ip_addr]))]
             ELSE st
  IN [st1 EXCEPT !.arp_table_ =
        Put(@, src_ip_addr,
            [eth_addr |-> src_eth_addr, ttl |-> arp_entry_default_ttl_])]

\* the same loop, followed for at most `fuel` iterations: whether it reached
\* the end of the list (done), how many iterations it made (visits), for each
\* send_datagram call it made whether the next hop was in the ARP table (hits),
\* and the stores it left (st)
RECURSIVE resend_trace(_, _, _, _)
resend_trace(st, i, src_ip_addr, fuel) ==
  LET list == st.waiting_arp_internet_datagrams_
  IN IF i > Len(list) THEN [done |-> TRUE, visits |-> 0, hits |-> <<>>, st |-> st]
     ELSE IF fuel = 0 THEN [done |-> FALSE, visits |-> 0, hits |-> <<>>, st |-> st]
     ELSE IF list[i][1] = src_ip_addr
          THEN LET sent == send_datagram(st, list[i][2], list[i][1])
                   rest == resend_trace(
                             [sent EXCEPT !.waiting_arp_internet_datagrams_ = EraseAt(@, i)],
                             i, src_ip_addr, fuel - 1)
               IN [rest EXCEPT !.visits = @ + 1,
                               !.hits = <<list[i][1] \in DOMAIN st.arp_table_>> \o @]
          ELSE LET rest == resend_trace(st, i + 1, src_ip_addr, fuel - 1)
               IN [rest EXCEPT !.visits = @ + 1]

\* waiting_arp_response_ip_addr_.erase(src_ip_addr)
erase_waiting_skipped(st, src_ip_addr) == st
erase_waiting(st, src_ip_addr) ==
  [st EXCEPT !.waiting_arp_response_ip_addr_ = Erase(@, src_ip_addr)]

handle_arp_frame_reply_last(st, frame) ==
  LET parser == parse_arp(frame.payload)
      arp_msg == parser.arp_msg
      src_ip_addr == arp_msg.sender_ip_address
      src_eth_addr == arp_msg.sender_ethernet_address
      st2 == [st EXCEPT !.arp_table_ =
                Put(@, src_ip_addr,
                    [eth_addr |-> src_eth_addr, ttl |-> arp_entry_default_ttl_])]
      st3 == resend_waiting(st2, 1, src_ip_addr)
      st4 == erase_waiting(st3, src_ip_addr)
      st5 == IF is_valid_arp_request(arp_msg)
             THEN [st4 EXCEPT !.frames_out = Append(@, arp_reply_frame(arp_msg))]
             ELSE st4
  IN IF ~parser.has_error
     THEN IF is_valid_arp_request(arp_msg) \/ is_valid_arp_reply(arp_msg)
          THEN [st |-> st5, ret |-> Nullopt]
          ELSE [st |-> st, ret |-> Nullopt]
     ELSE [st |-> st, ret |-> Nullopt]
handle_arp_frame(st, frame) ==
  LET parser == parse_arp(frame.payload)
      arp_msg == parser.arp_msg
      src_ip_addr == arp_msg.sender_ip_address
      src_eth_addr == arp_msg.sender_ethernet_address
      st1 == IF is_valid_arp_request(arp_msg)
             THEN [st EXCEPT !.frames_out = Append(@, arp_reply_frame(arp_msg))]
             ELSE st
      st2 == [st1 EXCEPT !.arp_table_ =
                Put(@, src_ip_addr,
                    [eth_addr |-> src_eth_addr, ttl |-> arp_entry_default_ttl_])]
      st3 == resend_waiting(st2, 1, src_ip_addr)
      st4 == erase_waiting(st3, src_ip_addr)
  IN IF ~parser.has_error
     THEN IF is_valid_arp_request(arp_msg) \/ is_valid_arp_reply(arp_msg)
          THEN [st |-> st4, ret |-> Nullopt]
          ELSE [st |-> st1, ret |-> Nullopt]
     ELSE [st |-> st, ret |-> Nullopt]

recv_frame(st, frame) ==
  IF ~frame_accepted(frame)
  THEN [st |-> st, ret |-> Nullopt]
  ELSE IF frame.type = TYPE_IPv4 THEN handle_IPv4_frame(st, frame)
  ELSE IF frame.type = TYPE_ARP THEN handle_arp_frame(st, frame)
  ELSE [st |-> st, ret |-> Nullopt]

(***************************************************************************)
(* tick                                                                    *)
(***************************************************************************)
arp_entry_expired_late(ttl, ms_since_last_tick) == ttl < ms_since_last_tick
arp_entry_expired(ttl, ms_since_last_tick) == ttl <= ms_since_last_tick

arp_response_expired_late(ttl, ms_since_last_tick) == ttl < ms_since_last_tick
arp_response_expired_early(ttl, ms_since_last_tick) == ttl <= ms_since_last_tick + 1
arp_response_expired(ttl, ms_since_last_tick) == ttl <= ms_since_last_tick

\* remove_if over the waiting datagrams, for the expired addresses
remove_waiting_skipped(list, expired) == list
remove_waiting_others(list, expired) ==
  SelectSeq(list, LAMBDA pair : pair[1] \in expired)
remove_waiting(list, expired) ==
  SelectSeq(list, LAMBDA pair : pair[1] \notin expired)

tick_without_aging(st, ms_since_last_tick) ==
  LET table == st.arp_table_
      kept == {ip \in DOMAIN table :
                 ~arp_entry_expired(table[ip].ttl, ms_since_last_tick)}
      waiting == st.waiting_arp_response_ip_addr_
      expired == {ip \in DOMAIN waiting :
                    arp_response_expired(waiting[ip], ms_since_last_tick)}
  IN [st EXCEPT
        !.arp_table_ = [ip \in kept |-> table[ip]],
        !.waiting_arp_response_ip_addr_ = [ip \in DOMAIN waiting \ expired |-> waiting[ip]],
        !.waiting_arp_internet_datagrams_ = remove_waiting(@, expired)]
tick(st, ms_since_last_tick) ==
  LET table == st.arp_table_
      kept == {ip \in DOMAIN table :
                 ~arp_entry_expired(table[ip].ttl, ms_since_last_tick)}
      waiting == st.waiting_arp_response_ip_addr_
      expired == {ip \in DOMAIN waiting :
                    arp_response_expired(waiting[ip], ms_since_last_tick)}
  IN [st EXCEPT
        !.arp_table_ =
           [ip \in kept |-> [table[ip] EXCEPT !.ttl = @ - ms_since_last_tick]],
        !.waiting_arp_response_ip_addr_ =
           [ip \in DOMAIN waiting \ expired |-> waiting[ip] - ms_since_last_tick],
        !.waiting_arp_internet_datagrams_ = remove_waiting(@, expired)]

(***************************************************************************)
(* maybe_send                                                              *)
(***************************************************************************)
maybe_send_newest(st) ==
  IF st.frames_out # <<>>
  THEN [st |-> [st EXCEPT !.frames_out = SubSeq(@, 1, Len(@) - 1)],
        ret |-> Some(st.frames_out[Len(st.frames_out)])]
  ELSE [st |-> st, ret |-> Nullopt]
maybe_send(st) ==
  IF st.frames_out # <<>>
  THEN [st |-> [st EXCEPT !.frames_out = Tail(@)], ret |-> Some(Head(st.frames_out))]
  ELSE [st |-> st, ret |-> Nullopt]

(***************************************************************************)
(* Observers of a call: what it appended to the outbound queue, and what   *)
(* a received frame is.                                                    *)
(***************************************************************************)
\* the frames a step appended to the queue `before`, given the queue `after`
Appended(before, after) == SubSeq(after, Len(before) + 1, Len(after))

IsRequestFor(f, ip) ==
  /\ f.dst = ETHERNET_BROADCAST
  /\ f.type = TYPE_ARP
  /\ f.payload[1] = "arp"
  /\ f.payload[2].opcode = OPCODE_REQUEST
  /\ f.payload[2].target_ip_address = ip

Count(seq, P(_)) == Cardinality({i \in 1..Len(seq) : P(seq[i])})

\* the number of waiting datagrams whose next hop is ip
Blocked(list, ip) == Count(list, LAMBDA pair : pair[1] = ip)

\* f is for us: sent to our link address or to the broadcast address
ForUs(f) == f.dst \in {ethernet_address_, ETHERNET_BROADCAST}

\* f carries an ARP message that parses
ParsableARP(f) == f.type = TYPE_ARP /\ f.payload[1] = "arp"

\* f carries a request for our IP address, or a reply to our link address
Directed(f) ==
  \/ f.payload[2].opcode = OPCODE_REQUEST /\ f.payload[2].target_ip_address = ip_address_
  \/ f.payload[2].opcode = OPCODE_REPLY
       /\ f.payload[2].target_ethernet_address = ethernet_address_

\* receiving f teaches us the link address of f's sender
Resolves(f) == ForUs(f) /\ ParsableARP(f) /\ Directed(f)
ResolvesFor(f, ip) == Resolves(f) /\ f.payload[2].sender_ip_address = ip

\* what a received frame is, by its header and payload
Class(f) ==
  IF ~ForUs(f) THEN "not_for_us"
  ELSE IF f.type = TYPE_IPv4
       THEN (IF f.payload[1] = "ipv4" THEN "datagram" ELSE "bad_datagram")
  ELSE IF f.type = TYPE_ARP
       THEN (IF f.payload[1] # "arp" THEN "bad_arp"
             ELSE IF ~Directed(f) THEN "undirected"
             ELSE IF f.payload[2].opcode = OPCODE_REQUEST THEN "request"
             ELSE "reply")
  ELSE "other_type"

NoEntry == [eth_addr |-> "", ttl |-> 0]

\* the record of a recv_frame call: the frame's class, the body of the payload
\* of a datagram for us, whether the frame's type is NETWORK or DISCOVERY, the
\* opcode of a parsable ARP message for us, and
\*  - when the message resolves its sender: the sender's addresses and, from
\*    before the call, the sender's entry in the ARP table and the number of
\*    datagrams waiting for the sender;
\*  - when it does not: whether, before the call, a request for the sender was
\*    pending with datagrams waiting for it
RecvRecord(frame, ret) ==
  LET parsed == ForUs(frame) /\ ParsableARP(frame)
      resolves == Resolves(frame)
      sender == IF parsed THEN frame.payload[2].sender_ip_address ELSE ""
  IN [op |-> "recv", class |-> Class(frame), ret |-> ret,
      body |-> IF Class(frame) = "datagram" THEN frame.payload[2] ELSE "",
      typed |-> frame.type \in {TYPE_IPv4, TYPE_ARP},
      opcode |-> IF parsed THEN frame.payload[2].opcode ELSE 0,
      sender_ip |-> IF resolves THEN sender ELSE "",
      sender_eth |-> IF resolves THEN frame.payload[2].sender_ethernet_address ELSE "",
      cached |-> IF resolves /\ sender \in DOMAIN arp_table_
                 THEN arp_table_[sender] ELSE NoEntry,
      nblocked |-> IF resolves
                   THEN Blocked(waiting_arp_internet_datagrams_, sender) ELSE 0,
      awaited |-> /\ parsed
                  /\ ~resolves
                  /\ sender \in DOMAIN waiting_arp_response_ip_addr_
                  /\ Blocked(waiting_arp_internet_datagrams_, sender) > 0]

(***************************************************************************)
(* The state machine.                                                      *)
(*                                                                         *)
(* win[ip] follows the sends to next hop ip that miss the ARP table: a run *)
(* starts at the first such send, counts the advanced time (el), the sends *)
(* (nsend) and the ARP requests for ip they appended (nreq), and ends when *)
(* 5000 ms have been advanced since its first send or when a resolution    *)
(* for ip is learned. ok records that every send of the run appended its   *)
(* pair to the waiting datagrams and appended no other frame.              *)
(*                                                                         *)
(* gone[ip] tells how the entry of ip last went away: evicted from the ARP *)
(* table or dropped from the pending requests, and by a tick of how many   *)
(* ms; a send to ip or a resolution for ip clears it.                      *)
(*                                                                         *)
(* since[ip] is the time advanced since an ARP request for ip was last     *)
(* appended to the outbound queue: -1 before the first, and 5000 for 5000  *)
(* or more.                                                                *)
(*                                                                         *)
(* pushed is the log of the frames pushed to the outbound queue, popped    *)
(* the log of the frames maybe_send returned, and passed[d] the number of  *)
(* send_datagram calls made with datagram d.                               *)
(***************************************************************************)
NoWin == [on |-> FALSE, el |-> 0, nsend |-> 0, nreq |-> 0, ok |-> TRUE]
NotGone == [how |-> "none", ms |-> 0]

Init ==
  /\ arp_table_ = <<>>
  /\ waiting_arp_response_ip_addr_ = <<>>
  /\ waiting_arp_internet_datagrams_ = <<>>
  /\ frames_out = <<>>
  /\ last = [op |-> "init"]
  /\ ncalls = 0
  /\ win = [ip \in NextHops |-> NoWin]
  /\ gone = [ip \in NextHops |-> NotGone]
  /\ since = [ip \in NextHops |-> -1]
  /\ pushed = <<>>
  /\ popped = <<>>
  /\ passed = [d \in Datagrams |-> 0]

\* one more public call, leaving the stores as in st
Install(st) ==
  /\ ncalls' = ncalls + 1
  /\ pushed' = pushed \o Appended(frames_out, st.frames_out)
  /\ arp_table_' = st.arp_table_
  /\ waiting_arp_response_ip_addr_' = st.waiting_arp_response_ip_addr_
  /\ waiting_arp_internet_datagrams_' = st.waiting_arp_internet_datagrams_
  /\ frames_out' = st.frames_out

\* since, after a call that took the outbound queue from `before` to `after`
Requested(before, after) ==
  [ip \in NextHops |->
     IF \E i \in 1..Len(Appended(before, after)) :
          IsRequestFor(Appended(before, after)[i], ip)
     THEN 0 ELSE since[ip]]

\* win[next_hop] after a send that took the stores from `before` to `after`
Run(before, after, dgram, next_hop) ==
  LET app == Appended(before.frames_out, after.frames_out)
      nreq == Count(app, LAMBDA f : IsRequestFor(f, next_hop))
      blk == /\ after.waiting_arp_internet_datagrams_ =
                  Append(before.waiting_arp_internet_datagrams_, <<next_hop, dgram>>)
             /\ Len(app) = nreq
      w == win[next_hop]
  IN IF w.on
     THEN [w EXCEPT !.nsend = @ + 1, !.nreq = @ + nreq, !.ok = @ /\ blk]
     ELSE [on |-> TRUE, el |-> 0, nsend |-> 1, nreq |-> nreq, ok |-> blk]

Send(dgram, next_hop) ==
  \E st \in {send_datagram(State, dgram, next_hop)} :
     /\ Install(st)
     /\ last' = [op |-> "send", dgram |-> dgram, next_hop |-> next_hop,
                 after |-> gone[next_hop]]
     /\ win' = IF next_hop \in DOMAIN arp_table_ THEN win
               ELSE [win EXCEPT ![next_hop] = Run(State, st, dgram, next_hop)]
     /\ gone' = [gone EXCEPT ![next_hop] = NotGone]
     /\ since' = Requested(frames_out, st.frames_out)
     /\ passed' = [passed EXCEPT ![dgram] = @ + 1]
     /\ UNCHANGED popped

Recv(frame) ==
  \E r \in {recv_frame(State, frame)} :
     /\ Install(r.st)
     /\ last' = RecvRecord(frame, r.ret)
     /\ win' = [ip \in NextHops |-> IF ResolvesFor(frame, ip) THEN NoWin ELSE win[ip]]
     /\ gone' = [ip \in NextHops |-> IF ResolvesFor(frame, ip) THEN NotGone ELSE gone[ip]]
     /\ since' = Requested(frames_out, r.st.frames_out)
     /\ UNCHANGED <<popped, passed>>

Tick(ms) ==
  \E st \in {tick(State, ms)} :
     /\ Install(st)
     /\ last' = [op |-> "tick", ms |-> ms]
     /\ win' = [ip \in NextHops |->
                  IF win[ip].on /\ win[ip].el + ms < 5000
                  THEN [win[ip] EXCEPT !.el = @ + ms]
                  ELSE NoWin]
     /\ gone' = [ip \in NextHops |->
                   IF ip \in DOMAIN arp_table_ /\ ip \notin DOMAIN st.arp_table_
                   THEN [how |-> "evicted", ms |-> ms]
                   ELSE IF ip \in DOMAIN waiting_arp_response_ip_addr_
                           /\ ip \notin DOMAIN st.waiting_arp_response_ip_addr_
                        THEN [how |-> "dropped", ms |-> ms]
                        ELSE gone[ip]]
     /\ since' = [ip \in NextHops |->
                    IF since[ip] < 0 THEN since[ip]
                    ELSE IF since[ip] + ms >= 5000 THEN 5000
                    ELSE since[ip] + ms]
     /\ UNCHANGED <<popped, passed>>

Poll ==
  \E r \in {maybe_send(State)} :
     /\ Install(r.st)
     /\ last' = [op |-> "poll", ret |-> r.ret]
     /\ popped' = popped \o r.ret
     /\ UNCHANGED <<win, gone, since, passed>>

\* the frames recv_frame acts upon: those that resolve their sender and those
\* that deliver a datagram
ActedFrames == {frame \in InFrames : Resolves(frame) \/ Class(frame) = "datagram"}

\* the public calls, receiving the frames the interface acts upon
Next ==
  \/ \E dgram \in Datagrams, next_hop \in NextHops :
        ncalls < MaxCalls /\ Send(dgram, next_hop)
  \/ \E frame \in ActedFrames : ncalls < MaxCalls /\ Recv(frame)
  \/ \E ms \in TickAmounts : ncalls < MaxCalls /\ Tick(ms)
  \/ ncalls < MaxCalls /\ Poll

Spec == Init /\ [][Next]_vars

\* the public calls, receiving every frame
NextFrames ==
  \/ \E dgram \in Datagrams, next_hop \in NextHops :
        ncalls < MaxFrameCalls /\ Send(dgram, next_hop)
  \/ \E frame \in InFrames : ncalls < MaxFrameCalls /\ Recv(frame)
  \/ \E ms \in TickAmounts : ncalls < MaxFrameCalls /\ Tick(ms)
  \/ ncalls < MaxFrameCalls /\ Poll

SpecFrames == Init /\ [][NextFrames]_vars

\* C1: in every run of sends to an unresolved next hop that spans less than
\* 5000 ms and sees no resolution, exactly one ARP request for the next hop
\* has been appended to the outbound queue, from the first send on, and every
\* send of the run has appended its (next hop, datagram) pair to the waiting
\* datagrams.
RequestDeduplication ==
  \A ip \in NextHops : win[ip].on => win[ip].nreq = 1 /\ win[ip].ok

\* a run of two sends to the same next hop, 4999 ms apart
RequestDeduplicationWitness ==
  /\ last.op = "send"
  /\ win[last.next_hop].on
  /\ win[last.next_hop].nsend >= 2
  /\ win[last.next_hop].el = 4999
  /\ Len(waiting_arp_internet_datagrams_) >= 2

\* the NETWORK frames among the frames a call appended
NetworkFrames(before, after) ==
  SelectSeq(Appended(before, after), LAMBDA f : f.type = TYPE_IPv4)
\* the DISCOVERY frames among the frames a call appended
DiscoveryFrames(before, after) ==
  SelectSeq(Appended(before, after), LAMBDA f : f.type = TYPE_ARP)
\* a call only appended to the outbound queue
OnlyAppended(before, after) ==
  Len(after) >= Len(before) /\ SubSeq(after, 1, Len(before)) = before

\* C2: when N datagrams wait for next hop H, receiving one request for our IP
\* address or one reply to our link address whose sender is H appends exactly N
\* NETWORK frames to the outbound queue, each to the sender's link address;
\* afterwards H is not pending and no datagram waits for H, and the datagrams
\* waiting for other next hops are as before.
ResolutionDrainsQueue ==
  [][(last'.op = "recv" /\ last'.class \in {"request", "reply"}) =>
       LET H == last'.sender_ip
           N == Blocked(waiting_arp_internet_datagrams_, H)
           net == NetworkFrames(frames_out, frames_out')
       IN /\ OnlyAppended(frames_out, frames_out')
          /\ Len(net) = N
          /\ \A i \in 1..Len(net) : net[i].dst = last'.sender_eth
          /\ H \notin DOMAIN waiting_arp_response_ip_addr_'
          /\ Blocked(waiting_arp_internet_datagrams_', H) = 0
          /\ waiting_arp_internet_datagrams_' =
               SelectSeq(waiting_arp_internet_datagrams_, LAMBDA pair : pair[1] # H)
    ]_vars

\* a reply has resolved a next hop with two waiting datagrams while a datagram
\* for another next hop keeps waiting
ResolutionDrainsQueueWitness ==
  /\ last.op = "recv"
  /\ last.class = "reply"
  /\ last.nblocked = 2
  /\ Len(waiting_arp_internet_datagrams_) = 1
  /\ Len(frames_out) >= 2

\* C3: a send to a next hop that is in the ARP table appends exactly one frame
\* to the outbound queue, of type NETWORK, to the cached link address and
\* carrying the datagram; it appends no ARP request and leaves the pending
\* requests, the waiting datagrams and the ARP table as they were.
CacheHitBypassesDiscovery ==
  [][(last'.op = "send" /\ last'.next_hop \in DOMAIN arp_table_) =>
       LET app == Appended(frames_out, frames_out')
       IN /\ OnlyAppended(frames_out, frames_out')
          /\ Len(app) = 1
          /\ app[1].type = TYPE_IPv4
          /\ app[1].dst = arp_table_[last'.next_hop].eth_addr
          /\ app[1].payload = <<"ipv4", last'.dgram>>
          /\ UNCHANGED <<arp_table_, waiting_arp_response_ip_addr_,
                         waiting_arp_internet_datagrams_>>
    ]_vars

\* a send has hit the ARP table while a request for the other next hop is pending
CacheHitBypassesDiscoveryWitness ==
  /\ last.op = "send"
  /\ last.next_hop \in DOMAIN arp_table_
  /\ frames_out # <<>>
  /\ frames_out[Len(frames_out)].type = TYPE_IPv4
  /\ waiting_arp_response_ip_addr_ # <<>>
  /\ waiting_arp_internet_datagrams_ # <<>>

\* the frame of an ARP request for ip: broadcast, of type DISCOVERY
RequestFrame(ip) ==
  [dst |-> ETHERNET_BROADCAST, src |-> ethernet_address_, type |-> TYPE_ARP,
   payload |-> <<"arp", [opcode |-> OPCODE_REQUEST,
                         sender_ethernet_address |-> ethernet_address_,
                         sender_ip_address |-> ip_address_,
                         target_ethernet_address |-> "00",
                         target_ip_address |-> ip]>>]

\* a send took the miss path with a new request: it appended the request frame
\* and nothing else, made ip pending with the full 5000 ms and put the datagram
\* with the waiting ones
FreshRequest(ip, dgram) ==
  /\ frames_out' = Append(frames_out, RequestFrame(ip))
  /\ ip \in DOMAIN waiting_arp_response_ip_addr_'
  /\ waiting_arp_response_ip_addr_'[ip] = 5000
  /\ waiting_arp_internet_datagrams_' =
       Append(waiting_arp_internet_datagrams_, <<ip, dgram>>)
  /\ ip \notin DOMAIN arp_table_'

\* no request is pending and no datagram waits for an address whose last ARP
\* request is 5000 ms or more of advanced time old
NothingPendingPastTimeout ==
  \A ip \in NextHops :
     since[ip] = 5000 =>
       /\ ip \notin DOMAIN waiting_arp_response_ip_addr_
       /\ Blocked(waiting_arp_internet_datagrams_, ip) = 0

\* C4: a tick that ages a pending request to or past its timer removes it and
\* every datagram waiting for its address and appends no frame; so no request
\* is pending, and no datagram waits, 5000 ms of advanced time after the
\* request was sent, in one tick or in several; and the next send to the
\* address appends a new ARP request and makes the address pending again with
\* the full 5000 ms.
SuppressionTimeoutDrops ==
  [][/\ last'.op = "tick" =>
          /\ frames_out' = frames_out
          /\ \A ip \in DOMAIN waiting_arp_response_ip_addr_ :
               waiting_arp_response_ip_addr_[ip] <= last'.ms =>
                 /\ ip \notin DOMAIN waiting_arp_response_ip_addr_'
                 /\ Blocked(waiting_arp_internet_datagrams_', ip) = 0
     /\ NothingPendingPastTimeout'
     /\ (last'.op = "send" /\ last'.after.how = "dropped") =>
          FreshRequest(last'.next_hop, last'.dgram)
    ]_vars

\* a request aged 4999 ms and then 1 ms was dropped with its datagram, and the
\* next send to its address has made a new request
SuppressionTimeoutDropsWitness ==
  /\ last.op = "send"
  /\ last.after = [how |-> "dropped", ms |-> 1]
  /\ since[last.next_hop] = 0
  /\ waiting_arp_response_ip_addr_[last.next_hop] = 5000
  /\ Len(waiting_arp_internet_datagrams_) = 1

\* C5: a tick of e ms evicts an entry of the ARP table with remaining time t
\* if and only if t <= e, and otherwise leaves it with remaining time t - e and
\* the same link address; it adds no entry. So an entry with 30000 ms is gone
\* after a tick of 30000 ms and has 1 ms left after a tick of 29999 ms.
ExactTTLEviction ==
  [][last'.op = "tick" =>
       /\ DOMAIN arp_table_' \subseteq DOMAIN arp_table_
       /\ \A ip \in DOMAIN arp_table_ :
            LET t == arp_table_[ip].ttl
                e == last'.ms
            IN /\ ip \notin DOMAIN arp_table_' <=> t <= e
               /\ t > e => arp_table_'[ip] = [eth_addr |-> arp_table_[ip].eth_addr,
                                              ttl |-> t - e]
    ]_vars

\* a tick of 29999 ms has left an entry with 1 ms
ExactTTLEvictionWitness ==
  /\ last.op = "tick"
  /\ last.ms = 29999
  /\ \E ip \in DOMAIN arp_table_ : arp_table_[ip].ttl = 1

\* C6: a tick of 30000 ms leaves the ARP table empty, whatever was learned
\* before; and the next send to an evicted address, when no message from it was
\* accepted in between, takes the miss path: it appends a broadcast ARP request
\* for the address and no NETWORK frame, makes the address pending and puts the
\* datagram with the waiting ones.
CacheExpiryRetriggersDiscovery ==
  [][/\ (last'.op = "tick" /\ last'.ms = 30000) => arp_table_' = <<>>
     /\ (last'.op = "send" /\ last'.after.how = "evicted") =>
          FreshRequest(last'.next_hop, last'.dgram)
    ]_vars

\* an address was learned, evicted by a tick of 30000 ms and then sent to
CacheExpiryRetriggersDiscoveryWitness ==
  /\ last.op = "send"
  /\ last.after = [how |-> "evicted", ms |-> 30000]
  /\ last.next_hop \in DOMAIN waiting_arp_response_ip_addr_
  /\ frames_out # <<>>
  /\ IsRequestFor(frames_out[Len(frames_out)], last.next_hop)

\* a recv_frame call returned empty and left the four stores as they were
Ignored == last'.ret = Nullopt /\ UNCHANGED stores

\* C7: receiving a frame whose destination is neither our link address nor
\* the broadcast address, whatever its type and payload, returns empty and
\* leaves the ARP table, the pending requests, the waiting datagrams and the
\* outbound queue unchanged.
NonAddressedFramesIgnored ==
  [][(last'.op = "recv" /\ last'.class = "not_for_us") => Ignored]_vars

\* a frame for another station was received while a request was pending, a
\* datagram was waiting and a frame was queued
NonAddressedFramesIgnoredWitness ==
  /\ last.op = "recv"
  /\ last.class = "not_for_us"
  /\ last.ret = Nullopt
  /\ waiting_arp_response_ip_addr_ # <<>>
  /\ waiting_arp_internet_datagrams_ # <<>>
  /\ frames_out # <<>>

\* C8: receiving a frame for us of type NETWORK or DISCOVERY whose payload
\* does not parse, or a frame of any other type, returns empty and leaves the
\* four stores unchanged.
MalformedPayloadTolerance ==
  [][(/\ last'.op = "recv"
       /\ \/ last'.class \in {"bad_datagram", "bad_arp", "other_type"}
          \/ ~last'.typed) => Ignored
    ]_vars

\* a NETWORK frame for us with a malformed payload was received while a
\* request was pending and a datagram was waiting
MalformedPayloadToleranceWitness ==
  /\ last.op = "recv"
  /\ last.class = "bad_datagram"
  /\ last.ret = Nullopt
  /\ waiting_arp_response_ip_addr_ # <<>>
  /\ waiting_arp_internet_datagrams_ # <<>>

\* the frame of our ARP reply to the sender of a request
ReplyFrame(sender_eth, sender_ip) ==
  [dst |-> sender_eth, src |-> ethernet_address_, type |-> TYPE_ARP,
   payload |-> <<"arp", [opcode |-> OPCODE_REPLY,
                         sender_ethernet_address |-> ethernet_address_,
                         sender_ip_address |-> ip_address_,
                         target_ethernet_address |-> sender_eth,
                         target_ip_address |-> sender_ip]>>]

\* the ARP table maps the sender to its link address with 30000 ms, and every
\* other address as before
Learned(sender_eth, sender_ip) ==
  /\ DOMAIN arp_table_' = DOMAIN arp_table_ \cup {sender_ip}
  /\ arp_table_'[sender_ip] = [eth_addr |-> sender_eth, ttl |-> 30000]
  /\ \A ip \in DOMAIN arp_table_ \ {sender_ip} : arp_table_'[ip] = arp_table_[ip]

\* C9: receiving a parsable ARP request for our IP address appends exactly one
\* DISCOVERY frame, before anything else the call appends: a reply, unicast to
\* the sender's link address, with our link and IP addresses as sender and the
\* requester's as target; and it sets the sender's entry of the ARP table to
\* the sender's link address with 30000 ms, overwriting the previous one. A
\* reply to our link address sets the entry in the same way and appends no
\* DISCOVERY frame.
RequestAnsweredAndLearned ==
  [][/\ (last'.op = "recv" /\ last'.class = "request") =>
          /\ OnlyAppended(frames_out, frames_out')
          /\ DiscoveryFrames(frames_out, frames_out') =
               <<ReplyFrame(last'.sender_eth, last'.sender_ip)>>
          /\ Appended(frames_out, frames_out')[1] =
               ReplyFrame(last'.sender_eth, last'.sender_ip)
          /\ Learned(last'.sender_eth, last'.sender_ip)
     /\ (last'.op = "recv" /\ last'.class = "reply") =>
          /\ OnlyAppended(frames_out, frames_out')
          /\ DiscoveryFrames(frames_out, frames_out') = <<>>
          /\ Learned(last'.sender_eth, last'.sender_ip)
    ]_vars

\* a request was answered whose sender was in the ARP table with another link
\* address and an aged timer
RequestAnsweredAndLearnedWitness ==
  /\ last.op = "recv"
  /\ last.class = "request"
  /\ last.cached.eth_addr \notin {"", last.sender_eth}
  /\ last.cached.ttl < 30000
  /\ arp_table_[last.sender_ip] = [eth_addr |-> last.sender_eth, ttl |-> 30000]

\* C10: receiving a parsable ARP message for us that is neither a request for
\* our IP address nor a reply to our link address returns empty and leaves the
\* four stores unchanged, also when a request for its sender is pending and
\* datagrams wait for it.
UndirectedDiscoveryIgnored ==
  [][(last'.op = "recv" /\ last'.class = "undirected") => Ignored]_vars

\* a reply to another link address was received from a sender with a pending
\* request and a waiting datagram
UndirectedDiscoveryIgnoredWitness ==
  /\ last.op = "recv"
  /\ last.class = "undirected"
  /\ last.opcode = OPCODE_REPLY
  /\ last.awaited
  /\ waiting_arp_response_ip_addr_ # <<>>
  /\ waiting_arp_internet_datagrams_ # <<>>

\* C11: recv_frame returns a datagram if and only if the frame is for us (our
\* link address or broadcast), has type NETWORK and its payload parses; the
\* datagram returned is the one the payload carries, and the four stores are
\* unchanged. Every DISCOVERY frame makes recv_frame return empty, also one
\* that resolves waiting datagrams.
DatagramDelivery ==
  [][last'.op = "recv" =>
       /\ last'.ret # Nullopt <=> last'.class = "datagram"
       /\ last'.class = "datagram" =>
            /\ last'.ret = Some(last'.body)
            /\ UNCHANGED stores
       /\ last'.class \in {"bad_arp", "undirected", "request", "reply"} =>
            last'.ret = Nullopt
    ]_vars

\* the datagram d2 was delivered while a request was pending, a datagram was
\* waiting and a frame was queued
DatagramDeliveryWitness ==
  /\ last.op = "recv"
  /\ last.class = "datagram"
  /\ last.body = "d2"
  /\ last.ret = Some("d2")
  /\ waiting_arp_response_ip_addr_ # <<>>
  /\ waiting_arp_internet_datagrams_ # <<>>
  /\ frames_out # <<>>

\* C12: maybe_send returns empty exactly when the outbound queue is empty, and
\* otherwise removes and returns its oldest frame, changing no other store; no
\* other call removes a frame. So, over every interleaving of the calls, the
\* frames returned so far followed by the frames still queued are the frames
\* pushed so far, in the order they were pushed: none lost, duplicated or
\* reordered.
OutboundFIFO ==
  [][/\ last'.op = "poll" =>
          /\ last'.ret = Nullopt <=> frames_out = <<>>
          /\ frames_out # <<>> =>
               /\ last'.ret = Some(Head(frames_out))
               /\ frames_out' = Tail(frames_out)
          /\ UNCHANGED <<arp_table_, waiting_arp_response_ip_addr_,
                         waiting_arp_internet_datagrams_>>
     /\ last'.op # "poll" => OnlyAppended(frames_out, frames_out')
     /\ pushed' = popped' \o frames_out'
    ]_vars

\* two different frames were pushed and then returned in the order pushed
OutboundFIFOWitness ==
  /\ last.op = "poll"
  /\ Len(popped) = 2
  /\ popped[1] # popped[2]
  /\ pushed = popped
  /\ frames_out = <<>>

\* C13: between public calls no address is both in the ARP table and in the
\* pending requests.
CacheAndPendingDisjoint ==
  DOMAIN arp_table_ \cap DOMAIN waiting_arp_response_ip_addr_ = {}

\* an address with a pending request and a waiting datagram was learned from
\* a reply, while a request for the other address stays pending
CacheAndPendingDisjointWitness ==
  /\ last.op = "recv"
  /\ last.class = "reply"
  /\ last.nblocked >= 1
  /\ last.sender_ip \in DOMAIN arp_table_
  /\ last.sender_ip \notin DOMAIN waiting_arp_response_ip_addr_
  /\ waiting_arp_response_ip_addr_ # <<>>

\* C14: a call appends at most one ARP request for an address, and appends one
\* only when no request for the address was appended before or when 5000 ms
\* or more have been advanced since the last one, whatever was sent, received
\* and polled in between.
MinimumRequestSpacing ==
  [][\A ip \in NextHops :
       LET n == Count(Appended(frames_out, frames_out'),
                      LAMBDA f : IsRequestFor(f, ip))
       IN /\ n <= 1
          /\ n = 1 => since[ip] \in {-1, 5000}
    ]_vars

\* a second request for an address was appended after a message from the
\* address was received and its entry was evicted
MinimumRequestSpacingWitness ==
  /\ last.op = "send"
  /\ last.after.how = "evicted"
  /\ since[last.next_hop] = 0
  /\ Count(pushed, LAMBDA f : IsRequestFor(f, last.next_hop)) = 2

\* C15: while recv_frame handles a valid request or reply from sender S, the
\* loop over the waiting datagrams ends after visiting each entry once; every
\* send_datagram call it makes, one per datagram waiting for S, finds S in the
\* ARP table; and the call appends no ARP request, adds no pending request and
\* adds no waiting datagram.
BoundedReentryOnDrain ==
  [][(last'.op = "recv" /\ last'.class \in {"request", "reply"}) =>
       LET S == last'.sender_ip
           N == Len(waiting_arp_internet_datagrams_)
           t == resend_trace(before_resend(State, last'.class = "request",
                                           last'.sender_eth, S), 1, S, N)
       IN /\ t.done
          /\ t.visits = N
          /\ Len(t.hits) = Blocked(waiting_arp_internet_datagrams_, S)
          /\ \A i \in 1..Len(t.hits) : t.hits[i]
          /\ State' = erase_waiting(t.st, S)
          /\ \A ip \in NextHops :
               Count(Appended(frames_out, frames_out'),
                     LAMBDA f : IsRequestFor(f, ip)) = 0
          /\ DOMAIN waiting_arp_response_ip_addr_' \subseteq
               DOMAIN waiting_arp_response_ip_addr_
          /\ Len(waiting_arp_internet_datagrams_') =
               N - Blocked(waiting_arp_internet_datagrams_, S)
    ]_vars

\* a request from a sender with two waiting datagrams was handled while a
\* datagram for the other next hop was waiting
BoundedReentryOnDrainWitness ==
  /\ last.op = "recv"
  /\ last.class = "request"
  /\ last.nblocked = 2
  /\ Len(waiting_arp_internet_datagrams_) = 1
  /\ waiting_arp_response_ip_addr_ # <<>>

\* C16: between public calls the next hop of every waiting datagram is in the
\* pending requests and not in the ARP table.
BlockedHasLivePending ==
  \A i \in 1..Len(waiting_arp_internet_datagrams_) :
     LET next_hop == waiting_arp_internet_datagrams_[i][1]
     IN /\ next_hop \in DOMAIN waiting_arp_response_ip_addr_
        /\ next_hop \notin DOMAIN arp_table_

\* a tick dropped the pending request of one next hop with its datagram while
\* a datagram keeps waiting for the other
BlockedHasLivePendingWitness ==
  /\ last.op = "tick"
  /\ \E ip \in NextHops : gone[ip] = [how |-> "dropped", ms |-> last.ms]
  /\ Len(waiting_arp_internet_datagrams_) = 1
  /\ passed["d1"] + passed["d2"] = 2

\* the number of NETWORK frames in seq that carry datagram d
Carrying(seq, d) ==
  Count(seq, LAMBDA f : f.type = TYPE_IPv4 /\ f.payload = <<"ipv4", d>>)
\* the number of waiting datagrams in list that are d
Waiting(list, d) == Count(list, LAMBDA pair : pair[2] = d)

\* C17: over every interleaving of the calls and for every datagram d, the
\* NETWORK frames carrying d ever pushed to the outbound queue, together with
\* the copies of d still waiting, are at most as many as the send_datagram
\* calls made with d: a call yields at most one frame, at once or at the
\* resolution, and a datagram whose frame was pushed waits no longer. A valid
\* request or reply from a sender no datagram waits for pushes no NETWORK
\* frame.
NoDuplication ==
  [][/\ \A d \in Datagrams :
          Carrying(pushed', d) + Waiting(waiting_arp_internet_datagrams_', d)
            <= passed'[d]
     /\ (/\ last'.op = "recv"
         /\ last'.class \in {"request", "reply"}
         /\ Blocked(waiting_arp_internet_datagrams_, last'.sender_ip) = 0) =>
          NetworkFrames(frames_out, frames_out') = <<>>
    ]_vars

\* a second reply from a next hop arrived after the first had released the one
\* datagram waiting for it
NoDuplicationWitness ==
  /\ last.op = "recv"
  /\ last.class = "reply"
  /\ last.nblocked = 0
  /\ last.cached = [eth_addr |-> last.sender_eth, ttl |-> 30000]
  /\ \E d \in Datagrams : passed[d] = 1 /\ Carrying(pushed, d) = 1
  /\ waiting_arp_internet_datagrams_ = <<>>

\* C18: a send to a next hop with a pending request leaves the pending
\* requests, timers included, as they were and puts the datagram with the
\* waiting ones. So the timer of every pending request is 5000 ms less the
\* time advanced since its ARP request was pushed, and once 5000 ms have been
\* advanced the request and every datagram waiting for its address are gone,
\* also a datagram that was sent just before.
TimerNotRefreshed ==
  [][/\ (last'.op = "send" /\ last'.next_hop \in DOMAIN waiting_arp_response_ip_addr_) =>
          /\ waiting_arp_response_ip_addr_' = waiting_arp_response_ip_addr_
          /\ waiting_arp_internet_datagrams_' =
               Append(waiting_arp_internet_datagrams_, <<last'.next_hop, last'.dgram>>)
     /\ \A ip \in DOMAIN waiting_arp_response_ip_addr_' :
          /\ since'[ip] >= 0
          /\ waiting_arp_response_ip_addr_'[ip] = 5000 - since'[ip]
     /\ \A ip \in NextHops :
          since'[ip] = 5000 =>
            /\ ip \notin DOMAIN waiting_arp_response_ip_addr_'
            /\ Blocked(waiting_arp_internet_datagrams_', ip) = 0
    ]_vars

\* a datagram sent 4999 ms after the request of its next hop was dropped, with
\* the one sent first, by a tick of 1 ms
TimerNotRefreshedWitness ==
  /\ last.op = "tick"
  /\ last.ms = 1
  /\ \E ip \in NextHops :
       /\ gone[ip] = [how |-> "dropped", ms |-> 1]
       /\ since[ip] = 5000
       /\ Count(pushed, LAMBDA f : IsRequestFor(f, ip)) = 1
  /\ passed["d1"] + passed["d2"] = 2
  /\ waiting_arp_internet_datagrams_ = <<>>
  /\ waiting_arp_response_ip_addr_ = <<>>

\* C19: from every reachable state, a tick of a ms followed at once by a tick
\* of b ms leaves the ARP table, the pending requests, the waiting datagrams
\* and the outbound queue as one tick of a + b ms does; and a tick of 0 ms
\* changes nothing.
AgingIsAdditive ==
  /\ \A a, b \in AgingAmounts : tick(tick(State, a), b) = tick(State, a + b)
  /\ tick(State, 0) = State

\* a tick of 4999 ms has left a pending request with 1 ms and its datagram
\* waiting, and an aged entry in the ARP table
AgingIsAdditiveWitness ==
  /\ last.op = "tick"
  /\ last.ms = 4999
  /\ \E ip \in DOMAIN waiting_arp_response_ip_addr_ :
       /\ waiting_arp_response_ip_addr_[ip] = 1
       /\ Blocked(waiting_arp_internet_datagrams_, ip) = 1
  /\ \E ip \in DOMAIN arp_table_ : arp_table_[ip].ttl = 25001

\* the NETWORK frame that carries datagram d to link address eth
DatagramFrame(eth, d) ==
  [dst |-> eth, src |-> ethernet_address_, type |-> TYPE_IPv4, payload |-> <<"ipv4", d>>]

\* C20: a send that misses the ARP table puts its datagram behind the waiting
\* ones; and receiving a valid request or reply from next hop H appends, after
\* the reply to a request and in the order of the waiting list, one NETWORK
\* frame to H's link address for each datagram waiting for H, and nothing else;
\* the datagrams waiting for other next hops stay in their order.
DrainPreservesOrder ==
  [][/\ (last'.op = "send" /\ last'.next_hop \notin DOMAIN arp_table_) =>
          waiting_arp_internet_datagrams_' =
            Append(waiting_arp_internet_datagrams_, <<last'.next_hop, last'.dgram>>)
     /\ (last'.op = "recv" /\ last'.class \in {"request", "reply"}) =>
          LET H == last'.sender_ip
              held == SelectSeq(waiting_arp_internet_datagrams_, LAMBDA pair : pair[1] = H)
              reply == IF last'.class = "request"
                       THEN <<ReplyFrame(last'.sender_eth, H)>> ELSE <<>>
          IN /\ frames_out' =
                  frames_out \o reply \o
                  [i \in 1..Len(held) |-> DatagramFrame(last'.sender_eth, held[i][2])]
             /\ waiting_arp_internet_datagrams_' =
                  SelectSeq(waiting_arp_internet_datagrams_, LAMBDA pair : pair[1] # H)
    ]_vars

\* d2 and then d1 were sent to a next hop whose request then arrived: the
\* reply, the frame of d2 and the frame of d1 were pushed in this order
DrainPreservesOrderWitness ==
  /\ last.op = "recv"
  /\ last.class = "request"
  /\ last.nblocked = 2
  /\ Len(frames_out) = 4
  /\ frames_out[2] = ReplyFrame(last.sender_eth, last.sender_ip)
  /\ frames_out[3] = DatagramFrame(last.sender_eth, "d2")
  /\ frames_out[4] = DatagramFrame(last.sender_eth, "d1")
=============================================================================
